---------------------------- MODULE Spec2Model ----------------------------
(***************************************************************************)
(* Model of the Lua scripting bridge of Aegisub (src/aegisub/src/          *)
(* auto4_lua.cpp): the script session (LuaScript), its feature registry,   *)
(* the macro and filter feature records (LuaFeatureMacro,                  *)
(* LuaFeatureFilter), the integer-array marshaling and the threaded call.  *)
(*                                                                         *)
(* The Lua runtime is modelled by what the bridge uses of it: a value      *)
(* stack, the registry table "features", protected calls and the type      *)
(* tests lua_isnumber / lua_istable / lua_isfunction / lua_toboolean.      *)
(* A script is modelled by what its top level does (registration calls,    *)
(* errors, globals) and a script callable by the outcome of one call.      *)
(***************************************************************************)
EXTENDS Integers, Sequences, FiniteSets, TLC

(***************************************************************************)
(* Bounds of the model.                                                    *)
(***************************************************************************)
\* number of lines of the document: selections hold indices 0..MaxLine-1
MaxLine == 2
\* longest selection the host passes in
MaxSel == 2
\* longest array a script callable returns
MaxRet == 2
\* most registration calls in a script's top level
MaxRegs == 2
\* most runtimes created (lua_open) in one behaviour
MaxLoads == 3
\* most feature records in the registry (late registrations stop there)
MaxFeatures == 3
\* deepest the value stack may go below its starting slot
MaxUnder == 1
\* most values left on the value stack between operations
MaxStack == 1

(***************************************************************************)
(* Lua values.  t is the Lua type; n the number (or the boolean as 0/1);   *)
(* s the string; e the entries of a table in traversal order.              *)
(***************************************************************************)
LuaNil == [t |-> "nil", n |-> 0, s |-> "", e |-> <<>>]
LuaNum(k) == [t |-> "number", n |-> k, s |-> "", e |-> <<>>]
LuaStr(str) == [t |-> "string", n |-> 0, s |-> str, e |-> <<>>]
LuaBool(b) == [t |-> "boolean", n |-> IF b THEN 1 ELSE 0, s |-> "", e |-> <<>>]
LuaTable(entries) == [t |-> "table", n |-> 0, s |-> "", e |-> entries]
LuaFunction == [t |-> "function", n |-> 0, s |-> "", e |-> <<>>]
LuaUserdata == [t |-> "userdata", n |-> 0, s |-> "", e |-> <<>>]

\* The strings of the model that Lua converts to a number, with the number.
NumericStrings == {<<"1", 1>>, <<"2", 2>>, <<"3", 3>>, <<"4", 4>>}

\* lua_isnumber: a number, or a string convertible to a number.
lua_isnumber(v) ==
    \/ v.t = "number"
    \/ v.t = "string" /\ \E p \in NumericStrings : p[1] = v.s

\* lua_tointeger: the number, the converted string, or 0.
lua_tointeger(v) ==
    IF v.t = "number" THEN v.n
    ELSE IF v.t = "string" /\ \E p \in NumericStrings : p[1] = v.s
         THEN (CHOOSE p \in NumericStrings : p[1] = v.s)[2]
         ELSE 0

\* lua_isstring: a string or a number (numbers convert to strings).
lua_isstring(v) == v.t \in {"string", "number"}

\* lua_tostring of a string or a number of the model.
lua_tostring(v) ==
    IF v.t = "string" THEN v.s
    ELSE IF \E p \in NumericStrings : p[2] = v.n
         THEN (CHOOSE p \in NumericStrings : p[2] = v.n)[1]
         ELSE "?"

lua_istable(v) == v.t = "table"
lua_isfunction(v) == v.t = "function"
\* lua_toboolean: false for nil and false, true for every other value.
lua_toboolean(v) == ~(v.t = "nil" \/ (v.t = "boolean" /\ v.n = 0))

get_global_string(v) == IF lua_isstring(v) THEN lua_tostring(v) ELSE ""

(***************************************************************************)
(* Scripts.  A script file is what its top level does when it is run once: *)
(* whether it parses, the registration calls it makes in order, whether it *)
(* raises an error after them, and the globals it sets.                    *)
(***************************************************************************)
\* GetPrettyFilename(): the name a failed or unnamed script is shown under.
Filename == "script.lua"

\* One call of aegisub.register_macro / aegisub.register_filter is
\* [kind, proc, aux]: proc is the processing argument, aux the validation
\* (macro) or configuration (filter) argument.
RegName(call) == IF call.kind = "macro" THEN "Trim" ELSE "Clean"

RECURSIVE SeqsUpTo(_, _)
\* every sequence over S of length at most k
SeqsUpTo(S, k) ==
    IF k = 0 THEN {<<>>}
    ELSE LET shorter == SeqsUpTo(S, k - 1)
         IN  shorter \cup {Append(q, x) : q \in shorter, x \in S}

\* the metadata globals of a script: none set, or all four set
MetaUnset ==
    [script_name |-> LuaNil, script_description |-> LuaNil,
     script_author |-> LuaNil, script_version |-> LuaNil]
MetaSet ==
    [script_name |-> LuaStr("Trim lines"), script_description |-> LuaStr("Trims"),
     script_author |-> LuaStr("nmh"), script_version |-> LuaNum(2)]

\* How the top level goes on after its registration calls: it ends, with or
\* without metadata and a `version` global, or it raises an error.
Endings ==
    {[raises |-> FALSE, version |-> LuaNil, meta |-> MetaUnset],
     [raises |-> FALSE, version |-> LuaNum(4), meta |-> MetaSet],
     [raises |-> FALSE, version |-> LuaNum(3), meta |-> MetaSet],
     [raises |-> FALSE, version |-> LuaStr("3"), meta |-> MetaUnset],
     [raises |-> TRUE, version |-> LuaNil, meta |-> MetaUnset]}

Script(regs, ending) ==
    [syntax |-> TRUE, regs |-> regs, raises |-> ending.raises,
     version |-> ending.version, meta |-> ending.meta]

\* a script that does not parse
BrokenScript ==
    [syntax |-> FALSE, regs |-> <<>>, raises |-> FALSE, version |-> LuaNil,
     meta |-> MetaUnset]

\* every script of at most k registration calls among `calls`
ScriptsOver(calls, k) ==
    {Script(regs, ending) : regs \in SeqsUpTo(calls, k), ending \in Endings}
    \cup {BrokenScript}

(***************************************************************************)
(* The feature registry: the vector `features` of the Script base class    *)
(* and the table "features" of the Lua registry, keyed by the same index.  *)
(***************************************************************************)
EmptyTable == [k \in {} |-> LuaNil]

\* lua_rawseti(t, k, v)
lua_rawseti(t, k, v) == [i \in (DOMAIN t) \cup {k} |-> IF i = k THEN v ELSE t[i]]

\* the index taken before the push_back is counted out
RegisterFeature_index_size(pushed) == Len(pushed)

\* LuaScript::RegisterFeature: the index returned after the push_back.
RegisterFeature_index(pushed) == Len(pushed) - 1

\* LuaFeature::RegisterFeature: append the record, take its index as myid
\* and store the record's function table under that index.  reg is
\* [features, luaFeatures]; ord counts the registrations of this runtime.
RegisterFeature(reg, feature, fntable) ==
    LET pushed == Append(reg.features, feature)
        myid == RegisterFeature_index(pushed)
        stored == [feature EXCEPT !.myid = myid]
    IN  [features |-> [pushed EXCEPT ![Len(pushed)] = stored],
         luaFeatures |-> lua_rawseti(reg.luaFeatures, myid,
                                     [fns |-> fntable, owner |-> feature.ord])]

\* the constructor without the test of the processing argument
FeatureCtor_unchecked(reg, call, Lid, late) ==
    LET feature ==
            [kind |-> call.kind, name |-> RegName(call), myid |-> -1,
             L |-> Lid, ord |-> Len(reg.features) + 1, late |-> late,
             no_validate |-> call.kind = "macro" /\ ~lua_isfunction(call.aux),
             has_config |-> call.kind = "filter" /\ lua_isfunction(call.aux),
             config_dialog |-> FALSE]
    IN  [ok |-> TRUE, reg |-> RegisterFeature(reg, feature, <<call.proc, call.aux>>)]

\* LuaFeatureMacro::LuaFeatureMacro / LuaFeatureFilter::LuaFeatureFilter:
\* the processing argument must be a function (else lua_error); the second
\* callable is optional.  Returns [ok, reg].
FeatureCtor(reg, call, Lid, late) ==
    IF ~lua_isfunction(call.proc)
    THEN [ok |-> FALSE, reg |-> reg]
    ELSE LET feature ==
                 [kind |-> call.kind, name |-> RegName(call), myid |-> -1,
                  L |-> Lid, ord |-> Len(reg.features) + 1, late |-> late,
                  no_validate |-> call.kind = "macro" /\ ~lua_isfunction(call.aux),
                  has_config |-> call.kind = "filter" /\ lua_isfunction(call.aux),
                  config_dialog |-> FALSE]
             fntable == <<call.proc, call.aux>>
         IN  [ok |-> TRUE, reg |-> RegisterFeature(reg, feature, fntable)]

RECURSIVE RunTopLevel(_, _, _, _)
\* The registration pass: the script's registration calls from the i-th on,
\* stopping at the first that raises.  Returns [ok, reg].
RunTopLevel(regs, i, reg, Lid) ==
    IF i > Len(regs) THEN [ok |-> TRUE, reg |-> reg]
    ELSE LET r == FeatureCtor(reg, regs[i], Lid, FALSE)
         IN  IF r.ok THEN RunTopLevel(regs, i + 1, r.reg, Lid) ELSE r

(***************************************************************************)
(* The script session.                                                     *)
(***************************************************************************)
ErrLoading == "Error loading Lua script"
ErrInitialising == "Error initialising Lua script"
ErrAutomation3 == "Attempted to load an Automation 3 script as an Automation 4 Lua script. Automation 3 is no longer supported."

\* the flag compared with the version of this engine
IsLegacyVersion_wrongNumber(v) == lua_isnumber(v) /\ lua_tointeger(v) = 4

\* The global `version` marks an Automation 3 script.
IsLegacyVersion(v) == lua_isnumber(v) /\ lua_tointeger(v) = 3

\* the runtime is closed and the records are left in the vector
Destroy_keepsRecords(s) ==
    IF s.L = 0 THEN s
    ELSE [s EXCEPT !.luaFeatures = EmptyTable, !.L = 0, !.open = s.open \ {s.L},
                   !.stack = <<>>, !.under = 0]

\* the records are deleted and the handle is dropped without lua_close
Destroy_leaksRuntime(s) ==
    IF s.L = 0 THEN s
    ELSE [s EXCEPT !.features = <<>>, !.luaFeatures = EmptyTable, !.L = 0,
                   !.stack = <<>>, !.under = 0]

\* LuaScript::Destroy on a session record: nothing without a runtime, else
\* the records are deleted and the runtime is closed.  `open` is the set of
\* runtimes created by lua_open and not yet closed by lua_close.
Destroy(s) ==
    IF s.L = 0 THEN s
    ELSE [s EXCEPT !.features = <<>>, !.luaFeatures = EmptyTable, !.L = 0,
                   !.open = s.open \ {s.L}, !.stack = <<>>, !.under = 0]

\* The catch block of LuaScript::Create.
CreateFailed(s, msg) ==
    [Destroy(s) EXCEPT !.name = Filename, !.description = msg, !.error = msg]

\* LuaScript::Create on session record s with script file f; Lid is the
\* runtime lua_open returns.
Create(s0, f, Lid) ==
    LET d == Destroy(s0)
        s1 == [d EXCEPT !.L = Lid, !.open = d.open \cup {Lid}, !.stack = <<>>,
                        !.under = 0, !.luaFeatures = EmptyTable, !.error = ""]
        top == RunTopLevel(f.regs, 1,
                           [features |-> s1.features, luaFeatures |-> EmptyTable],
                           Lid)
        s2 == [s1 EXCEPT !.features = top.reg.features,
                         !.luaFeatures = top.reg.luaFeatures]
        script_name == get_global_string(f.meta.script_name)
    IN  IF ~f.syntax THEN CreateFailed(s1, ErrLoading)
        ELSE IF ~top.ok \/ f.raises THEN CreateFailed(s2, ErrInitialising)
        ELSE IF IsLegacyVersion(f.version) THEN CreateFailed(s2, ErrAutomation3)
        ELSE [s2 EXCEPT
                !.name = IF script_name = "" THEN Filename ELSE script_name,
                !.description = get_global_string(f.meta.script_description),
                !.author = get_global_string(f.meta.script_author),
                !.version = get_global_string(f.meta.script_version)]

\* The members of a LuaScript before its constructor runs Create.
Unloaded ==
    [L |-> 0, open |-> {}, features |-> <<>>, luaFeatures |-> EmptyTable,
     stack |-> <<>>, under |-> 0, name |-> "", description |-> "", author |-> "",
     version |-> "", error |-> ""]

(***************************************************************************)
(* The value stack of the runtime.  st is [stack, under]: the values above *)
(* the lowest slot reached, and how many slots below the starting slot     *)
(* that is.  The depth relative to the start is Len(stack) - under.        *)
(***************************************************************************)
Push(st, v) == [st EXCEPT !.stack = Append(st.stack, v)]

RECURSIVE Pop(_, _)
\* lua_pop(L, n): no check that n values are there.
Pop(st, n) ==
    IF n = 0 THEN st
    ELSE IF Len(st.stack) = 0 THEN Pop([st EXCEPT !.under = st.under + 1], n - 1)
    ELSE Pop([st EXCEPT !.stack = SubSeq(st.stack, 1, Len(st.stack) - 1)], n - 1)

\* the value at index -k; a slot below the lowest reached reads as nil
At(st, k) ==
    IF Len(st.stack) >= k THEN st.stack[Len(st.stack) + 1 - k] ELSE LuaNil

Depth(st) == Len(st.stack) - st.under

(***************************************************************************)
(* One call of a script callable, as the bridge sees it: it raises or it   *)
(* returns `rets` (or, with echo, its second argument), and it may call    *)
(* aegisub.register_macro / register_filter while it runs (`registers`).   *)
(***************************************************************************)
NoCall == [kind |-> "none", proc |-> LuaNil, aux |-> LuaNil]

\* the registration calls a callable of the model may make
LateCalls ==
    {[kind |-> "macro", proc |-> LuaFunction, aux |-> LuaNil],
     [kind |-> "filter", proc |-> LuaFunction, aux |-> LuaNil]}

\* the entries a returned array may hold
Entries ==
    {LuaNum(k) : k \in 1..MaxLine} \cup {LuaStr("2"), LuaStr("x"), LuaBool(TRUE)}

\* the values a callable may return
Scalars == {LuaNil, LuaNum(1), LuaStr("x"), LuaBool(TRUE), LuaBool(FALSE)}
Arrays == {LuaTable(q) : q \in SeqsUpTo(Entries, MaxRet)}

Outcome(raises, rets, echo, registers) ==
    [raises |-> raises, rets |-> rets, echo |-> echo, registers |-> registers]

\* every outcome of the model
Outcomes ==
    {Outcome(TRUE, <<>>, FALSE, c) : c \in LateCalls \cup {NoCall}}
    \cup {Outcome(FALSE, <<>>, e, c) : e \in BOOLEAN, c \in LateCalls \cup {NoCall}}
    \cup {Outcome(FALSE, <<v>>, FALSE, c) :
             v \in Scalars \cup Arrays, c \in LateCalls \cup {NoCall}}

NoOutcome == Outcome(FALSE, <<>>, FALSE, NoCall)

RuntimeErrorMessage == "runtime error"

RECURSIVE Adjust(_, _)
\* the results of a call adjusted to nresults values: cut, or filled with nil
Adjust(rets, nresults) ==
    IF nresults = 0 THEN <<>>
    ELSE IF Len(rets) = 0 THEN <<LuaNil>> \o Adjust(<<>>, nresults - 1)
    ELSE <<Head(rets)>> \o Adjust(Tail(rets), nresults - 1)

RECURSIVE PushAll(_, _)
PushAll(st, vs) == IF vs = <<>> THEN st ELSE PushAll(Push(st, Head(vs)), Tail(vs))

\* lua_pcall(L, nargs, nresults, 0) of a callable with outcome o: the
\* function and its arguments are removed; the error message, or the
\* adjusted results, are pushed.  Returns [st, err].
lua_pcall(st, nargs, nresults, o) ==
    LET rets == IF o.echo THEN <<At(st, nargs - 1)>> ELSE o.rets
        popped == Pop(st, nargs + 1)
    IN  IF o.raises
        THEN [st |-> Push(popped, LuaStr(RuntimeErrorMessage)), err |-> TRUE]
        ELSE [st |-> PushAll(popped, Adjust(rets, nresults)), err |-> FALSE]

\* What the callable's own registration call does to the registry: the
\* entry points LuaRegister stay in the global table `aegisub` after load.
LuaRegister(reg, o, Lid) ==
    IF o.registers = NoCall THEN reg
    ELSE FeatureCtor(reg, o.registers, Lid, TRUE).reg

(***************************************************************************)
(* Marshaling of selections.                                               *)
(***************************************************************************)
\* the indices pushed as they are, zero-based
CreateIntegerArray_zeroBased(ints) ==
    LuaTable([i \in 1..Len(ints) |-> LuaNum(ints[i])])

\* LuaFeature::CreateIntegerArray: a new table holding ints[i] + 1 at i + 1.
CreateIntegerArray(ints) == LuaTable([i \in 1..Len(ints) |-> LuaNum(ints[i] + 1)])

RECURSIVE Insert(_, _)
\* x put into the ascending sequence q
Insert(q, x) ==
    IF q = <<>> THEN <<x>>
    ELSE IF x <= Head(q) THEN <<x>> \o q
    ELSE <<Head(q)>> \o Insert(Tail(q), x)

\* the sort left out
Sort_none(q) == q

RECURSIVE Sort(_)
\* std::sort(selected.begin(), selected.end())
Sort(q) == IF q = <<>> THEN <<>> ELSE Insert(Sort(Tail(q)), Head(q))

RECURSIVE ReadEntries(_)
\* The lua_next loop of LuaFeatureMacro::Process: every entry lua_isnumber
\* accepts is pushed back as lua_tointeger - 1, the others are skipped.
ReadEntries(e) ==
    IF e = <<>> THEN <<>>
    ELSE (IF lua_isnumber(Head(e)) THEN <<lua_tointeger(Head(e)) - 1>> ELSE <<>>)
         \o ReadEntries(Tail(e))

\* the read-back without the lua_istable test
ReadSelection_unchecked(topval, selected) == Sort(ReadEntries(topval.e))

\* The read-back of LuaFeatureMacro::Process: `selected` is replaced only
\* when the value on top of the stack is a table.
ReadSelection(topval, selected) ==
    IF lua_istable(topval) THEN Sort(ReadEntries(topval.e)) ELSE selected

(***************************************************************************)
(* Document snapshots (LuaAssFile): the flags each operation passes.       *)
(***************************************************************************)
LuaAssFile(op, can_modify, can_set_undo) ==
    [op |-> op, can_modify |-> can_modify, can_set_undo |-> can_set_undo,
     valid |-> TRUE, completed |-> 0]

NoSnapshot ==
    [op |-> "none", can_modify |-> FALSE, can_set_undo |-> FALSE, valid |-> FALSE,
     completed |-> 0]

\* the export snapshot created like the macro's, with undo allowed
ProcessSubsSnapshot_undo == LuaAssFile("ProcessSubs", TRUE, TRUE)

\* the snapshot created by each operation
ValidateSnapshot == LuaAssFile("Validate", FALSE, FALSE)
ProcessSnapshot == LuaAssFile("Process", TRUE, TRUE)
ProcessSubsSnapshot == LuaAssFile("ProcessSubs", TRUE, FALSE)
GenerateConfigDialogSnapshot == LuaAssFile("GenerateConfigDialog", FALSE, FALSE)

\* LuaAssFile::ProcessingComplete: the snapshot handle is invalidated;
\* `completed` counts the notifications the snapshot got.
ProcessingComplete(snap) ==
    [snap EXCEPT !.valid = FALSE, !.completed = snap.completed + 1]

(***************************************************************************)
(* State.                                                                  *)
(***************************************************************************)
VARIABLES
    file,         \* the script file as it was read by the last Create
    nloads,       \* how many runtimes lua_open has created
    destroyed,    \* the destructor of the session has run
    L,            \* the runtime handle of the session, 0 for none
    open,         \* the runtimes created and not closed
    features,     \* the feature records of the session, in index order
    luaFeatures,  \* the table "features" of the runtime's registry
    stack,        \* the value stack of the runtime
    under,        \* how far the stack went below its starting slot
    name, description, author, version,   \* the session's metadata
    error,        \* the message of the ScriptLoadError of the last Create
    dropped,      \* how many records the Reload or destructor that returned deleted
    hostPc,       \* where the host thread is: idle, wait (inside Run), returned
    workerPc,     \* where the background worker is: idle, running, gc
    inv,          \* the invocation in progress, or the one that returned
    selected,     \* the caller's selection vector of that invocation
    result,       \* what the operation returned to the host
    log,          \* the messages the operation logged
    snapshot,     \* the document snapshot of that invocation
    lastOp        \* the operation that returned to the host

sessionVars ==
    <<L, open, features, luaFeatures, stack, under, name, description, author,
      version, error>>
callVars == <<hostPc, workerPc, inv, selected, result, log, snapshot>>
vars == <<file, nloads, destroyed, dropped, sessionVars, callVars, lastOp>>

Session ==
    [L |-> L, open |-> open, features |-> features, luaFeatures |-> luaFeatures,
     stack |-> stack, under |-> under, name |-> name,
     description |-> description, author |-> author, version |-> version,
     error |-> error]

SetSession(s) ==
    /\ L' = s.L
    /\ open' = s.open
    /\ features' = s.features
    /\ luaFeatures' = s.luaFeatures
    /\ stack' = s.stack
    /\ under' = s.under
    /\ name' = s.name
    /\ description' = s.description
    /\ author' = s.author
    /\ version' = s.version
    /\ error' = s.error

\* what identifies the registered records: index, order, kind and name
RegistryView(fs) ==
    [i \in 1..Len(fs) |-> <<fs[i].myid, fs[i].ord, fs[i].kind, fs[i].name>>]

NoInvocation ==
    [op |-> "none", myid |-> -1, selIn |-> <<>>, active |-> -1, args |-> <<>>,
     called |-> FALSE, outcome |-> NoOutcome, cancelled |-> FALSE,
     raced |-> FALSE, nargs |-> 0, nresults |-> 0, L |-> 0, registry |-> <<>>,
     depth |-> 0, gc |-> 0]

\* the host starts an operation only on a live session, from its event
\* loop, and when the last background call has ended
HostIdle == ~destroyed /\ hostPc = "idle" /\ workerPc = "idle"

\* the selections the host passes in
Selections == SeqsUpTo(0..(MaxLine - 1), MaxSel)
\* the active line indices the host passes in
ActiveLines == 0..(MaxLine - 1)

(***************************************************************************)
(* Construction, Reload, destruction.                                      *)
(***************************************************************************)
\* LuaScript::LuaScript on a file of the set S: every member empty, then
\* Create.
Constructed(S) ==
    /\ file \in S
    /\ nloads = 1
    /\ destroyed = FALSE
    /\ dropped = 0
    /\ LET s == Create(Unloaded, file, 1)
       IN  /\ L = s.L
           /\ open = s.open
           /\ features = s.features
           /\ luaFeatures = s.luaFeatures
           /\ stack = s.stack
           /\ under = s.under
           /\ name = s.name
           /\ description = s.description
           /\ author = s.author
           /\ version = s.version
           /\ error = s.error
    /\ hostPc = "returned"
    /\ workerPc = "idle"
    /\ inv = NoInvocation
    /\ selected = <<>>
    /\ result = "void"
    /\ log = <<>>
    /\ snapshot = NoSnapshot
    /\ lastOp = "Create"

\* LuaScript::Reload with the script file reading f at that time.
Reload(f) ==
    /\ HostIdle
    /\ nloads < MaxLoads
    /\ nloads' = nloads + 1
    /\ file' = f
    /\ SetSession(Create(Session, f, nloads + 1))
    /\ dropped' = Len(features)
    /\ hostPc' = "returned"
    /\ lastOp' = "Reload"
    /\ UNCHANGED <<destroyed, workerPc, inv, selected, result, log, snapshot>>

\* LuaScript::~LuaScript
Destructor ==
    /\ HostIdle
    /\ destroyed' = TRUE
    /\ SetSession(Destroy(Session))
    /\ dropped' = Len(features)
    /\ hostPc' = "returned"
    /\ lastOp' = "Destructor"
    /\ UNCHANGED <<file, nloads, workerPc, inv, selected, result, log, snapshot>>

\* The operation has returned and the host is back in its event loop: the
\* caller's arguments and results are gone.  After a cancelled Run this
\* waits for the background call to end.
HostContinue ==
    /\ hostPc = "returned"
    /\ workerPc = "idle"
    /\ ~destroyed
    /\ hostPc' = "idle"
    /\ inv' = NoInvocation
    /\ selected' = <<>>
    /\ result' = "void"
    /\ log' = <<>>
    /\ snapshot' = NoSnapshot
    /\ lastOp' = "none"
    /\ dropped' = 0
    /\ UNCHANGED <<file, nloads, destroyed, sessionVars, workerPc>>

(***************************************************************************)
(* Operations of the feature records.                                      *)
(***************************************************************************)
StackNow == [stack |-> stack, under |-> under]
Registry == [features |-> features, luaFeatures |-> luaFeatures]

\* LuaFeature::GetFeatureFunction: the callable stored under functionid in
\* the function table that the registry holds under the record's myid.
GetFeatureFunction(st, myid, functionid) ==
    Push(st, luaFeatures[myid].fns[functionid])

\* the invocation record of an operation as it starts
Invocation(op, myid, sel, act, args, nargs, nresults) ==
    [op |-> op, myid |-> myid, selIn |-> sel, active |-> act, args |-> args,
     called |-> FALSE, outcome |-> NoOutcome, cancelled |-> FALSE,
     raced |-> FALSE, nargs |-> nargs, nresults |-> nresults, L |-> L,
     registry |-> RegistryView(features), depth |-> Len(stack) - under,
     gc |-> 0]

\* the third argument the macro operations hand to the script
ActiveLineArgument(act) == -1

\* the values a macro operation pushes for the script, after the function
MacroArguments(sel, act) ==
    <<LuaUserdata, CreateIntegerArray(sel), LuaNum(ActiveLineArgument(act))>>

\* The result of LuaFeatureMacro::Validate from the protected call.
ValidateResult(err, topval) == IF err THEN FALSE ELSE lua_toboolean(topval)

\* LuaFeatureMacro::Validate on the i-th record; o is what the validation
\* callable does when it is called.
Validate(i, sel, act, o) ==
    /\ HostIdle
    /\ L # 0
    /\ i \in 1..Len(features)
    /\ features[i].kind = "macro"
    /\ o.registers # NoCall => Len(features) < MaxFeatures
    /\ hostPc' = "returned"
    /\ lastOp' = "Validate"
    /\ selected' = sel
    /\ IF features[i].no_validate
       THEN /\ o = NoOutcome
            /\ result' = "true"
            /\ inv' = Invocation("Validate", features[i].myid, sel, act, <<>>, 0, 0)
            /\ log' = <<>>
            /\ snapshot' = NoSnapshot
            /\ UNCHANGED <<features, luaFeatures, stack, under>>
       ELSE LET args == MacroArguments(sel, act)
                st1 == GetFeatureFunction(StackNow, features[i].myid, 2)
                st2 == PushAll(st1, args)
                reg == LuaRegister(Registry, o, L)
                call == lua_pcall(st2, 3, 1, o)
                res == ValidateResult(call.err, At(call.st, 1))
                st3 == Pop(call.st, 1)
            IN  /\ result' = IF res THEN "true" ELSE "false"
                /\ inv' = [Invocation("Validate", features[i].myid, sel, act,
                                      args, 3, 1)
                             EXCEPT !.called = TRUE, !.outcome = o]
                /\ log' = IF call.err
                          THEN <<"Runtime error in Lua macro validation function">>
                          ELSE <<>>
                /\ snapshot' = ValidateSnapshot
                /\ features' = reg.features
                /\ luaFeatures' = reg.luaFeatures
                /\ stack' = st3.stack
                /\ under' = st3.under
    /\ UNCHANGED <<file, nloads, destroyed, dropped, L, open, name, description, author,
                   version, error, workerPc>>

\* LuaConfigDialog::LuaConfigDialog reads the table on top of the stack and
\* leaves it there.
LuaConfigDialog(st) == st

\* on an error the stored dialog is returned as none and kept
ConfigDialogAfter_kept(err, stored) == stored \/ ~err

\* `return config_dialog = 0` on an error, `return config_dialog = new
\* LuaConfigDialog` else: whether the record holds a dialog afterwards.
ConfigDialogAfter(err, stored) == ~err

\* LuaFeatureFilter::GenerateConfigDialog on the i-th record.  A callable
\* that returns something else than a table makes the dialog constructor
\* raise outside any protected call, which ends the program: no step.
GenerateConfigDialog(i, o) ==
    /\ HostIdle
    /\ L # 0
    /\ i \in 1..Len(features)
    /\ features[i].kind = "filter"
    /\ o.registers # NoCall => Len(features) < MaxFeatures
    /\ hostPc' = "returned"
    /\ lastOp' = "GenerateConfigDialog"
    /\ IF ~features[i].has_config
       THEN /\ o = NoOutcome
            /\ result' = "none"
            /\ inv' = Invocation("GenerateConfigDialog", features[i].myid, <<>>,
                                 -1, <<>>, 0, 0)
            /\ log' = <<>>
            /\ snapshot' = NoSnapshot
            /\ UNCHANGED <<features, luaFeatures, stack, under>>
       ELSE LET args == <<LuaUserdata, LuaTable(<<>>)>>
                st1 == GetFeatureFunction(StackNow, features[i].myid, 2)
                st2 == PushAll(st1, args)
                reg == LuaRegister(Registry, o, L)
                call == lua_pcall(st2, 2, 1, o)
                st3 == IF call.err THEN Pop(call.st, 1) ELSE LuaConfigDialog(call.st)
            IN  /\ call.err \/ lua_istable(At(call.st, 1))
                /\ call.err \/ Len(stack) < MaxStack
                /\ result' = IF call.err THEN "none" ELSE "dialog"
                /\ inv' = [Invocation("GenerateConfigDialog", features[i].myid,
                                      <<>>, -1, args, 2, 1)
                             EXCEPT !.called = TRUE, !.outcome = o]
                /\ log' = IF call.err
                          THEN <<"Runtime error in Lua macro validation function">>
                          ELSE <<>>
                /\ snapshot' = GenerateConfigDialogSnapshot
                /\ features' = [reg.features EXCEPT ![i].config_dialog =
                                  ConfigDialogAfter(call.err, features[i].config_dialog)]
                /\ luaFeatures' = reg.luaFeatures
                /\ stack' = st3.stack
                /\ under' = st3.under
    /\ UNCHANGED <<file, nloads, destroyed, dropped, L, open, name, description, author,
                   version, error, workerPc, selected>>

\* LuaFeatureMacro::Process up to the start of the background call in
\* LuaThreadedCall: the function and the three arguments are pushed and the
\* worker is started; the host blocks in BackgroundScriptRunner::Run.
ProcessBegin(i, sel, act) ==
    /\ HostIdle
    /\ L # 0
    /\ i \in 1..Len(features)
    /\ features[i].kind = "macro"
    /\ under < MaxUnder
    /\ LET args == MacroArguments(sel, act)
           st1 == GetFeatureFunction(StackNow, features[i].myid, 1)
           st2 == PushAll(st1, args)
       IN  /\ stack' = st2.stack
           /\ under' = st2.under
           /\ inv' = Invocation("Process", features[i].myid, sel, act, args, 3, 1)
    /\ snapshot' = ProcessSnapshot
    /\ selected' = sel
    /\ log' = <<>>
    /\ hostPc' = "wait"
    /\ workerPc' = "running"
    /\ UNCHANGED <<file, nloads, destroyed, dropped, L, open, features, luaFeatures, name,
                   description, author, version, error, result, lastOp>>

\* what ProcessSubs pushes as the configuration: the read-back of the stored
\* dialog (one table of results), or an empty table
ConfigArgument(feature) ==
    IF feature.has_config /\ feature.config_dialog
    THEN LuaTable(<<LuaBool(TRUE)>>)
    ELSE LuaTable(<<>>)

\* LuaFeatureFilter::ProcessSubs up to the start of the background call.
ProcessSubsBegin(i) ==
    /\ HostIdle
    /\ L # 0
    /\ i \in 1..Len(features)
    /\ features[i].kind = "filter"
    /\ LET args == <<LuaUserdata, ConfigArgument(features[i])>>
           st1 == GetFeatureFunction(StackNow, features[i].myid, 1)
           st2 == PushAll(st1, args)
       IN  /\ stack' = st2.stack
           /\ under' = st2.under
           /\ inv' = Invocation("ProcessSubs", features[i].myid, <<>>, -1, args, 2, 0)
    /\ snapshot' = ProcessSubsSnapshot
    /\ log' = <<>>
    /\ hostPc' = "wait"
    /\ workerPc' = "running"
    /\ UNCHANGED <<file, nloads, destroyed, dropped, L, open, features, luaFeatures, name,
                   description, author, version, error, selected, result, lastOp>>

\* lua_threaded_call, on the background worker: the protected call of the
\* callable, whose outcome is o; a runtime error is logged and popped.
WorkerCall(o) ==
    /\ workerPc = "running"
    /\ o.registers # NoCall => Len(features) < MaxFeatures
    /\ LET reg == LuaRegister(Registry, o, L)
           call == lua_pcall(StackNow, inv.nargs, inv.nresults, o)
           st == IF call.err THEN Pop(call.st, 1) ELSE call.st
       IN  /\ features' = reg.features
           /\ luaFeatures' = reg.luaFeatures
           /\ stack' = st.stack
           /\ under' = st.under
           /\ log' = IF call.err
                     THEN log \o <<"Lua reported a runtime error:",
                                   RuntimeErrorMessage>>
                     ELSE log
    /\ inv' = [inv EXCEPT !.called = TRUE, !.outcome = o]
    /\ workerPc' = "gc"
    /\ UNCHANGED <<file, nloads, destroyed, dropped, L, open, name, description, author,
                   version, error, hostPc, selected, result, snapshot, lastOp>>

\* the collection left out
lua_gc_skipped(passes) == passes

\* lua_gc(L, LUA_GCCOLLECT, 0): one more full collection pass done in the
\* runtime for this invocation.
lua_gc(passes) == passes + 1

\* lua_threaded_call: the full collection after the call; the worker ends.
WorkerCollect ==
    /\ workerPc = "gc"
    /\ workerPc' = "idle"
    /\ inv' = [inv EXCEPT !.gc = lua_gc(inv.gc)]
    /\ UNCHANGED <<file, nloads, destroyed, dropped, sessionVars, hostPc, selected,
                   result, log, snapshot, lastOp>>

\* The rest of LuaFeatureMacro::Process after LuaThreadedCall returned: the
\* snapshot is completed, the selection is read back from the top of the
\* stack and one value is popped.
ProcessEnd(cancelled) ==
    /\ hostPc = "wait"
    /\ inv.op = "Process"
    /\ snapshot' = ProcessingComplete(snapshot)
    /\ selected' = ReadSelection(At(StackNow, 1), selected)
    /\ LET st == Pop(StackNow, 1)
       IN  /\ stack' = st.stack
           /\ under' = st.under
    /\ inv' = [inv EXCEPT !.cancelled = cancelled, !.raced = workerPc # "idle"]
    /\ hostPc' = "returned"
    /\ result' = "void"
    /\ lastOp' = "Process"
    /\ UNCHANGED <<file, nloads, destroyed, dropped, L, open, features, luaFeatures, name,
                   description, author, version, error, workerPc, log>>

\* The rest of LuaFeatureFilter::ProcessSubs after LuaThreadedCall returned.
ProcessSubsEnd(cancelled) ==
    /\ hostPc = "wait"
    /\ inv.op = "ProcessSubs"
    /\ snapshot' = ProcessingComplete(snapshot)
    /\ inv' = [inv EXCEPT !.cancelled = cancelled]
    /\ hostPc' = "returned"
    /\ result' = "void"
    /\ lastOp' = "ProcessSubs"
    /\ UNCHANGED <<file, nloads, destroyed, dropped, sessionVars, workerPc, selected, log>>

\* BackgroundScriptRunner::Run returns when the background call has ended.
RunReturns ==
    /\ workerPc = "idle"
    /\ (ProcessEnd(FALSE) \/ ProcessSubsEnd(FALSE))

\* The user cancels: Run throws UserCancelException, which LuaThreadedCall
\* swallows, while the background call goes on.
RunCancelled ==
    /\ workerPc # "idle"
    /\ (ProcessEnd(TRUE) \/ ProcessSubsEnd(TRUE))

(***************************************************************************)
(* Spec: every operation on a session that loads one of two well-formed    *)
(* scripts (each registers a macro and a filter; with, or without, the     *)
(* validation and configuration callables) or a script that does not       *)
(* parse.  The callables raise, return nothing, return their second        *)
(* argument, return an array or a dialog table, and may register.          *)
(***************************************************************************)
OpScripts ==
    {Script(<<[kind |-> "macro", proc |-> LuaFunction, aux |-> a],
              [kind |-> "filter", proc |-> LuaFunction, aux |-> a]>>,
            [raises |-> FALSE, version |-> LuaNil, meta |-> MetaSet]) :
         a \in {LuaFunction, LuaNil}}
    \cup {BrokenScript}

\* a dialog description: a table of control tables
DialogTable == LuaTable(<<LuaTable(<<>>)>>)

OpOutcomes ==
    {Outcome(TRUE, <<>>, FALSE, c) : c \in LateCalls \cup {NoCall}}
    \cup {Outcome(FALSE, <<>>, e, c) : e \in BOOLEAN, c \in LateCalls \cup {NoCall}}
    \cup {Outcome(FALSE, <<v>>, FALSE, NoCall) :
             v \in {DialogTable, LuaTable(<<LuaNum(2), LuaNum(1)>>)}}

OpSelections == {<<0>>}

Init == Constructed(OpScripts)

Next ==
    \/ \E f \in OpScripts : Reload(f)
    \/ Destructor
    \/ HostContinue
    \/ \E i \in 1..MaxFeatures, sel \in OpSelections, o \in OpOutcomes :
          Validate(i, sel, 0, o)
    \/ \E i \in 1..MaxFeatures, o \in OpOutcomes : GenerateConfigDialog(i, o)
    \/ \E i \in 1..MaxFeatures, sel \in OpSelections : ProcessBegin(i, sel, 0)
    \/ \E i \in 1..MaxFeatures : ProcessSubsBegin(i)
    \/ \E o \in OpOutcomes : WorkerCall(o)
    \/ WorkerCollect
    \/ RunReturns
    \/ RunCancelled

Spec == Init /\ [][Next]_vars

(***************************************************************************)
(* SpecLoad: construction, Reload and destruction over every script of at  *)
(* most MaxRegs registration calls; between loads the validation callable  *)
(* of a macro runs and may register a feature.                             *)
(***************************************************************************)
LoadCalls ==
    [kind : {"macro", "filter"}, proc : {LuaFunction, LuaNil}, aux : {LuaFunction}]

LoadScripts == ScriptsOver(LoadCalls, MaxRegs)

LoadOutcomes == {Outcome(r, <<>>, FALSE, c) : r \in BOOLEAN, c \in LateCalls}

InitLoad == Constructed(LoadScripts)

NextLoad ==
    \/ \E f \in LoadScripts : Reload(f)
    \/ Destructor
    \/ HostContinue
    \/ \E i \in 1..MaxFeatures, o \in LoadOutcomes : Validate(i, <<>>, 0, o)

SpecLoad == InitLoad /\ [][NextLoad]_vars

(***************************************************************************)
(* SpecMarshal: Process of the macro of one script, over every selection,  *)
(* every active line and every value the processing callable may return;   *)
(* the user does not cancel.                                               *)
(***************************************************************************)
MarshalScript ==
    Script(<<[kind |-> "macro", proc |-> LuaFunction, aux |-> LuaNil]>>,
           [raises |-> FALSE, version |-> LuaNil, meta |-> MetaUnset])

MarshalOutcomes == {o \in Outcomes : o.registers = NoCall}

InitMarshal == Constructed({MarshalScript})

NextMarshal ==
    \/ HostContinue
    \/ \E sel \in Selections, act \in ActiveLines : ProcessBegin(1, sel, act)
    \/ \E o \in MarshalOutcomes : WorkerCall(o)
    \/ WorkerCollect
    \/ RunReturns

SpecMarshal == InitMarshal /\ [][NextMarshal]_vars

(***************************************************************************)
(* SpecLookup: LuaFeature::GetFeatureFunction applied to an index myid,    *)
(* inside and outside the bounds of the registry, on every session that a  *)
(* script of at most MaxRegs registration calls leaves.                    *)
(***************************************************************************)
\* the values a read through a slot that holds no table may give
StaleValues == {LuaNil, LuaFunction, LuaStr("x")}

\* lua_rawgeti(L, -1, myid) on the table "features": nil for an absent key.
FeatureTable(myid) ==
    IF myid \in DOMAIN luaFeatures THEN LuaTable(luaFeatures[myid].fns) ELSE LuaNil

\* GetFeatureFunction for the index myid.  For a key the table "features"
\* holds, the callable stored under functionid is pushed.  For any other
\* key the first lua_rawgeti gives nil and the second lua_rawgeti is applied
\* to a value that is not a table, which Lua leaves undefined: the build
\* with API checks aborts and so may the read through the slot's stale
\* pointer (crashed = TRUE), or a value of StaleValues is pushed.
Lookup(myid, functionid, crashed, v) ==
    /\ HostIdle
    /\ L # 0
    /\ Len(stack) < MaxStack
    /\ inv' = Invocation("Lookup", myid, <<>>, -1, <<>>, 0, 0)
    /\ IF lua_istable(FeatureTable(myid))
       THEN /\ ~crashed
            /\ v = FeatureTable(myid).e[functionid]
            /\ stack' = GetFeatureFunction(StackNow, myid, functionid).stack
            /\ hostPc' = "returned"
       ELSE /\ stack' = IF crashed THEN stack ELSE Push(StackNow, v).stack
            /\ crashed => v = LuaNil
            /\ hostPc' = IF crashed THEN "crashed" ELSE "returned"
    /\ result' = "void"
    /\ lastOp' = "Lookup"
    /\ selected' = <<>>
    /\ log' = <<>>
    /\ snapshot' = NoSnapshot
    /\ UNCHANGED <<file, nloads, destroyed, dropped, L, open, features, luaFeatures,
                   under, name, description, author, version, error, workerPc>>

InitLookup == Constructed(LoadScripts)

NextLookup ==
    \/ HostContinue
    \/ \E myid \in 0..MaxFeatures, functionid \in {1, 2}, crashed \in BOOLEAN,
          v \in StaleValues : Lookup(myid, functionid, crashed, v)

SpecLookup == InitLookup /\ [][NextLookup]_vars

(***************************************************************************)
(* Properties.                                                             *)
(***************************************************************************)
AllFunctions(regs) == \A i \in 1..Len(regs) : lua_isfunction(regs[i].proc)

\* C1: within one session the records registered so far carry the indices
\* 0, 1, ..., N-1 in registration order, with no gap and no reuse, and the
\* function table found under index i is the one of the i-th registered
\* record and of no other; the records of the registration pass are those
\* of the script's calls, in their order.
C1_IndicesInRegistrationOrder ==
    /\ \A i \in 1..Len(features) :
          /\ features[i].myid = i - 1
          /\ features[i].ord = i
          /\ (i - 1) \in DOMAIN luaFeatures
          /\ luaFeatures[i - 1].owner = i
    /\ DOMAIN luaFeatures = {i - 1 : i \in 1..Len(features)}
    /\ L # 0 =>
          /\ Len(features) >= Len(file.regs)
          /\ \A i \in 1..Len(file.regs) :
                /\ features[i].kind = file.regs[i].kind
                /\ luaFeatures[i - 1].fns = <<file.regs[i].proc, file.regs[i].aux>>
                /\ ~features[i].late

\* a macro and a filter registered by the script, and a third record
\* registered after them
C1_Witness ==
    /\ L # 0
    /\ Len(features) >= 3
    /\ features[1].kind # features[2].kind
    /\ features[3].late

\* C2: while the session keeps its runtime (Ready, no Reload, no
\* destruction), the sequence of registered records (length, order,
\* indices) does not change.
C2_RegistryStableWhileReady ==
    [][(L # 0 /\ L' = L) => RegistryView(features)' = RegistryView(features)]_vars

\* what makes a load fail: the script does not parse, its top level raises
\* (by itself or in a registration call), or it sets version to 3
LoadFails(f) ==
    \/ ~f.syntax
    \/ f.raises
    \/ ~AllFunctions(f.regs)
    \/ f.version = LuaNum(3)

\* C3: a failed Load or Reload leaves the session Failed: no runtime
\* handle, no feature record, the failure's message as description and the
\* filename as name; a session with a live runtime has loaded without
\* error and holds every record of the registration pass.
C3_FailedLoadLeavesNothing ==
    /\ LoadFails(file) => error # ""
    /\ error # "" =>
          /\ L = 0
          /\ open = {}
          /\ features = <<>>
          /\ luaFeatures = EmptyTable
          /\ description = error
          /\ name = Filename
    /\ ~file.syntax => error = ErrLoading
    /\ file.syntax /\ (file.raises \/ ~AllFunctions(file.regs)) => error = ErrInitialising
    /\ L # 0 => error = "" /\ Len(features) >= Len(file.regs)

\* a Reload that failed in its second registration call, after the first
\* had registered a record
C3_Witness ==
    /\ lastOp = "Reload"
    /\ error = ErrInitialising
    /\ Len(file.regs) >= 2
    /\ lua_isfunction(file.regs[1].proc)
    /\ ~lua_isfunction(file.regs[2].proc)

\* C4: a script whose top level runs to its end and sets version to 3 fails
\* to load with the message about the unsupported Automation 3 format, and
\* the session has no feature record and no runtime, whatever it registered.
C4_LegacyVersionRejected ==
    (file.syntax /\ ~file.raises /\ AllFunctions(file.regs)
     /\ file.version = LuaNum(3))
        => (error = ErrAutomation3 /\ features = <<>> /\ L = 0
            /\ description = ErrAutomation3)

\* a legacy script that registered a macro and a filter before the flag
\* was examined
C4_Witness ==
    /\ file.version = LuaNum(3)
    /\ Len(file.regs) >= 2
    /\ AllFunctions(file.regs)
    /\ file.regs[1].kind # file.regs[2].kind
    /\ error = ErrAutomation3

\* C5: only the session's current runtime is open and every record was
\* registered in it; when Reload returns, the registry holds the records
\* of this reload's registration pass and no other, indexed from 0.
C5_ReloadReplacesEverything ==
    /\ open = (IF L = 0 THEN {} ELSE {L})
    /\ L # 0 => L = nloads
    /\ \A i \in 1..Len(features) : features[i].L = L
    /\ lastOp = "Reload" =>
          /\ Len(features) = (IF L = 0 THEN 0 ELSE Len(file.regs))
          /\ \A i \in 1..Len(features) :
                ~features[i].late /\ features[i].myid = i - 1

\* a Reload that deleted three records, one of them registered after the
\* load, and registered two again
C5_Witness ==
    /\ lastOp = "Reload"
    /\ dropped >= 3
    /\ L # 0
    /\ Len(features) = 2

(***************************************************************************)
(* Properties of Process, read where Process has returned to the host.     *)
(***************************************************************************)
\* Process has returned from a Run that ended (it was not cancelled) in
\* which the processing callable returned
ProcessCompleted ==
    /\ hostPc = "returned"
    /\ inv.op = "Process"
    /\ inv.called
    /\ ~inv.cancelled
    /\ ~inv.outcome.raises

\* how often x occurs in the sequence q
Occurrences(q, x) == Cardinality({i \in 1..Len(q) : q[i] = x})

IsAscending(q) == \A i \in 1..(Len(q) - 1) : q[i] <= q[i + 1]

\* the integers a selection of the model may hold
SelectionValues == -1..(MaxLine + 4)

\* C6: when the processing callable returns the array it was handed, the
\* selection Process leaves is the passed-in selection in ascending order:
\* the same indices, each as often, the +1 and the -1 cancelling.
C6_SelectionRoundTrip ==
    (ProcessCompleted /\ inv.outcome.echo) =>
        /\ IsAscending(selected)
        /\ Len(selected) = Len(inv.selIn)
        /\ \A k \in SelectionValues :
              Occurrences(selected, k) = Occurrences(inv.selIn, k)

\* the selection [1, 0] went through the script and came back as [0, 1]
C6_Witness ==
    /\ ProcessCompleted
    /\ inv.outcome.echo
    /\ inv.selIn = <<1, 0>>
    /\ selected = <<0, 1>>

\* the array the processing callable returned, if it returned one
ReturnedArray ==
    IF ~inv.outcome.echo /\ Len(inv.outcome.rets) = 1
       /\ inv.outcome.rets[1].t = "table"
    THEN inv.outcome.rets[1].e
    ELSE <<>>

ReturnedAnArray ==
    ~inv.outcome.echo /\ Len(inv.outcome.rets) = 1 /\ inv.outcome.rets[1].t = "table"

\* C7 as stated: the new selection is made of the entries of Lua type
\* number, each decreased by one, in ascending order; every other entry
\* contributes nothing.
C7_NumberEntriesOnly ==
    (ProcessCompleted /\ ReturnedAnArray) =>
        /\ IsAscending(selected)
        /\ \A k \in SelectionValues :
              Occurrences(selected, k) =
                 Cardinality({i \in 1..Len(ReturnedArray) :
                                 /\ ReturnedArray[i].t = "number"
                                 /\ ReturnedArray[i].n - 1 = k})

\* the integer an entry stands for: a number, or a string that converts to
\* a number
Converts(entry) ==
    \/ entry.t = "number"
    \/ entry.t = "string" /\ entry.s \in {p[1] : p \in NumericStrings}

Converted(entry) ==
    IF entry.t = "number" THEN entry.n
    ELSE (CHOOSE p \in NumericStrings : p[1] = entry.s)[2]

\* C7 as amended: the new selection is made of the entries that are numbers
\* or strings convertible to a number, each converted to an integer and
\* decreased by one, in ascending order; every other entry contributes
\* nothing.
C7_ConvertibleEntriesOnly ==
    (ProcessCompleted /\ ReturnedAnArray) =>
        /\ IsAscending(selected)
        /\ \A k \in SelectionValues :
              Occurrences(selected, k) =
                 Cardinality({i \in 1..Len(ReturnedArray) :
                                 /\ Converts(ReturnedArray[i])
                                 /\ Converted(ReturnedArray[i]) - 1 = k})

\* the scenario of the specification: selection [0] in, the callable
\* returns [2, 1], selection [0, 1] out
C7_Witness ==
    /\ ProcessCompleted
    /\ inv.selIn = <<0>>
    /\ inv.active = 0
    /\ inv.outcome.rets = <<LuaTable(<<LuaNum(2), LuaNum(1)>>)>>
    /\ selected = <<0, 1>>

\* C8: when the processing callable returns something that is not an array
\* (nothing, nil, a number, a string, a boolean), the selection Process
\* leaves is the one passed in.
C8_NonArrayLeavesSelection ==
    (ProcessCompleted /\ ~inv.outcome.echo /\ ~ReturnedAnArray) =>
        selected = inv.selIn

\* the callable returned a number and the selection [1, 0] was left as it was
C8_Witness ==
    /\ ProcessCompleted
    /\ inv.outcome.rets = <<LuaNum(1)>>
    /\ inv.selIn = <<1, 0>>
    /\ selected = <<1, 0>>

(***************************************************************************)
(* Properties of Validate and of the snapshots.                            *)
(***************************************************************************)
\* C9: when the validation callable raises a runtime error, Validate
\* returns false, the session keeps its runtime without a load error, the
\* value stack is as deep as before and the registry is as it was when
\* Validate began.
C9_ValidateErrorContained ==
    (hostPc = "returned" /\ inv.op = "Validate" /\ inv.called
     /\ inv.outcome.raises) =>
        /\ result = "false"
        /\ L # 0 /\ L = inv.L /\ error = ""
        /\ Len(stack) - under = inv.depth
        /\ RegistryView(features) = inv.registry

\* C10: the flags of the snapshot handed to the script are those of the
\* operation: Validate and GenerateConfigDialog none, Process both,
\* ProcessSubs modification without undo; the snapshot of an invocation is
\* the one its operation created, and no invocation of a filter has one
\* that allows undo.
C10_SnapshotFlagsByOperation ==
    /\ snapshot.op \in {"none", inv.op}
    /\ inv.called => snapshot.op = inv.op
    /\ snapshot.op \in {"Validate", "GenerateConfigDialog"} =>
          ~snapshot.can_modify /\ ~snapshot.can_set_undo
    /\ snapshot.op = "Process" => snapshot.can_modify /\ snapshot.can_set_undo
    /\ snapshot.op = "ProcessSubs" => snapshot.can_modify /\ ~snapshot.can_set_undo
    /\ inv.op \in {"ProcessSubs", "GenerateConfigDialog"} => ~snapshot.can_set_undo

\* the processing callable of a filter with a stored dialog is running on
\* its snapshot
C10_Witness ==
    /\ inv.op = "ProcessSubs"
    /\ workerPc = "running"
    /\ snapshot.valid
    /\ snapshot.can_modify
    /\ \E i \in 1..Len(features) :
          features[i].myid = inv.myid /\ features[i].config_dialog

(***************************************************************************)
(* Properties of a registration that is refused.                           *)
(***************************************************************************)
\* the first registration call of regs whose processing argument is not a
\* function
FirstRefused(regs) ==
    CHOOSE i \in 1..Len(regs) :
        /\ ~lua_isfunction(regs[i].proc)
        /\ \A j \in 1..(i - 1) : lua_isfunction(regs[j].proc)

C12_RuntimeUsedByOneThread ==
    [][(hostPc = "wait" /\ hostPc' = "returned") => workerPc = "idle"]_vars

(***************************************************************************)
(* Properties of GenerateConfigDialog.                                     *)
(***************************************************************************)
\* GenerateConfigDialog has returned to the host
ConfigDialogReturned == hostPc = "returned" /\ inv.op = "GenerateConfigDialog"

\* C13: a filter registered without a configuration function has
\* has_config false, and GenerateConfigDialog on it returns none without a
\* call into the script, without a snapshot and without a change of the
\* stack; on a filter registered with one, a runtime error in that function
\* makes GenerateConfigDialog return none and the record holds no dialog
\* afterwards.
C13_ConfigDialogNoneCases ==
    /\ \A i \in 1..Len(features) :
          (features[i].kind = "filter" /\ features[i].myid \in DOMAIN luaFeatures) =>
             features[i].has_config =
                lua_isfunction(luaFeatures[features[i].myid].fns[2])
    /\ ConfigDialogReturned =>
          \A i \in 1..Len(features) : features[i].myid = inv.myid =>
             /\ ~features[i].has_config =>
                   /\ result = "none"
                   /\ ~inv.called
                   /\ snapshot = NoSnapshot
                   /\ log = <<>>
                   /\ Len(stack) - under = inv.depth
                   /\ ~features[i].config_dialog
             /\ (features[i].has_config /\ inv.outcome.raises) =>
                   /\ inv.called
                   /\ result = "none"
                   /\ ~features[i].config_dialog
                   /\ Len(stack) - under = inv.depth

\* the configuration function of a filter raised: none is returned, the
\* warning is logged and the record holds no dialog
C13_Witness ==
    /\ ConfigDialogReturned
    /\ inv.called
    /\ inv.outcome.raises
    /\ result = "none"
    /\ log # <<>>
    /\ snapshot = GenerateConfigDialogSnapshot
    /\ \E i \in 1..Len(features) :
          /\ features[i].myid = inv.myid
          /\ features[i].has_config
          /\ ~features[i].config_dialog

\* GenerateConfigDialog returned none on a filter registered without a
\* configuration function
C13_WitnessNoConfig ==
    /\ ConfigDialogReturned
    /\ ~inv.called
    /\ result = "none"
    /\ \E i \in 1..Len(features) :
          features[i].myid = inv.myid /\ ~features[i].has_config

(***************************************************************************)
(* Properties of repeated loads.                                           *)
(***************************************************************************)
\* the metadata of the records fs: index, position, kind, name and the
\* presence of the optional callables
RecordMetadata(fs) ==
    [i \in 1..Len(fs) |->
        <<fs[i].myid, fs[i].kind, fs[i].name, fs[i].no_validate, fs[i].has_config,
          fs[i].config_dialog>>]

\* C14: a Reload that succeeds leaves the record metadata (in index order)
\* and the session metadata that a first load of the same script into a new
\* session gives, whatever the session held before; so two Reloads in a row
\* of an unchanged well-formed script give the same records and the same
\* session metadata both times.
C14_ReloadDependsOnScriptOnly ==
    (hostPc = "returned" /\ lastOp = "Reload" /\ L # 0) =>
        LET fresh == Create(Unloaded, file, L)
        IN  /\ fresh.L = L
            /\ RecordMetadata(features) = RecordMetadata(fresh.features)
            /\ DOMAIN luaFeatures = DOMAIN fresh.luaFeatures
            /\ <<name, description, author, version>> =
                  <<fresh.name, fresh.description, fresh.author, fresh.version>>
            /\ stack = <<>> /\ under = 0

\* the second Reload of a session succeeded, with fewer records than the
\* session held before it (a callable had registered one more)
C14_Witness ==
    /\ hostPc = "returned"
    /\ lastOp = "Reload"
    /\ nloads = 3
    /\ L = 3
    /\ Len(features) = 2
    /\ dropped = 3
    /\ author = ""

C16_ProcessErrorLeavesSelection ==
    (/\ hostPc = "returned"
     /\ inv.op = "Process"
     /\ inv.called
     /\ inv.outcome.raises
     /\ ~inv.cancelled) =>
        /\ result = "void"
        /\ \E k \in 1..Len(log) : log[k] = RuntimeErrorMessage
        /\ selected = inv.selIn

\* C17: a Process or ProcessSubs that has returned has notified its
\* snapshot of the end of processing exactly once, and the notification
\* never comes while the script callable has still to finish: as long as
\* the background worker is in the protected call the snapshot is valid.
C17_CompletionOnceAfterScript ==
    /\ (hostPc = "returned" /\ inv.op \in {"Process", "ProcessSubs"}) =>
          snapshot.completed = 1
    /\ (snapshot.op \in {"Process", "ProcessSubs"} /\ workerPc = "running") =>
          snapshot.valid /\ snapshot.completed = 0

(***************************************************************************)
(* Properties of the snapshots and of the arguments.                       *)
(***************************************************************************)
\* C18: when Validate, Process, GenerateConfigDialog or ProcessSubs has
\* returned, the snapshot it created for the script is no longer valid.
C18_SnapshotInvalidAtReturn ==
    (/\ hostPc = "returned"
     /\ inv.op \in {"Validate", "Process", "GenerateConfigDialog", "ProcessSubs"}
     /\ snapshot.op = inv.op) =>
        ~snapshot.valid

\* C19: the third argument Validate and Process hand to the script is the
\* caller's active line index converted to the script's one-based
\* numbering, so that invocations with different active indices hand over
\* different third arguments.
C19_ActiveLinePassed ==
    (inv.op \in {"Validate", "Process"} /\ Len(inv.args) = 3) =>
        inv.args[3] = LuaNum(inv.active + 1)

\* C20: when the user cancels the Run that Process started, Process takes
\* no selection from the runtime: it returns with the caller's selection as
\* it was passed in.
C20_CancelledRunYieldsNoResult ==
    (hostPc = "returned" /\ inv.op = "Process" /\ inv.cancelled) =>
        selected = inv.selIn

(***************************************************************************)
(* Properties of lua_threaded_call.                                        *)
(***************************************************************************)
\* the error text of the callable is in the progress log
ErrorLogged == \E k \in 1..Len(log) : log[k] = RuntimeErrorMessage

\* C21: a background call does no collection before the script call has
\* ended; when the script call has ended with a runtime error the error
\* text is in the progress log before the collection; and a background call
\* that has finished has done exactly one full collection, after a normal
\* return of the callable and after a runtime error alike, with the host
\* returning normally from the operation.
C21_OneCollectionAfterCall ==
    inv.op \in {"Process", "ProcessSubs"} =>
        /\ workerPc = "running" => ~inv.called /\ inv.gc = 0
        /\ workerPc = "gc" =>
              /\ inv.called
              /\ inv.gc = 0
              /\ inv.outcome.raises => ErrorLogged
        /\ workerPc = "idle" =>
              /\ inv.called
              /\ inv.gc = 1
              /\ inv.outcome.raises <=> ErrorLogged
        /\ hostPc = "returned" => result = "void"

\* the processing callable of a macro raised, the text was logged, the
\* collection was done and Process has returned
C21_Witness ==
    /\ inv.op = "Process"
    /\ hostPc = "returned"
    /\ workerPc = "idle"
    /\ inv.outcome.raises
    /\ ~inv.cancelled
    /\ inv.gc = 1
    /\ ErrorLogged

\* the same after a normal return of the callable
C21_WitnessSuccess ==
    /\ inv.op = "ProcessSubs"
    /\ hostPc = "returned"
    /\ workerPc = "idle"
    /\ inv.called
    /\ ~inv.outcome.raises
    /\ inv.gc = 1
    /\ log = <<>>

(***************************************************************************)
(* Properties of the value stack and of teardown.                          *)
(***************************************************************************)
\* an operation on a Ready session has returned, its Run not cancelled;
\* for GenerateConfigDialog, on the path that returns none
OperationReturned ==
    /\ hostPc = "returned"
    /\ ~inv.cancelled
    /\ \/ inv.op \in {"Validate", "Process", "ProcessSubs"}
       \/ inv.op = "GenerateConfigDialog" /\ result = "none"

\* C22: an operation that has returned has left the value stack at the
\* depth it had when the operation began, whether the callable returned or
\* raised, and the stack has never gone below its starting slot.
C22_StackDepthRestored ==
    /\ OperationReturned => Len(stack) - under = inv.depth
    /\ under = 0

\* C23: a session without a runtime has no feature records and no function
\* tables; every record belongs to the session's live runtime, and no
\* runtime but the session's is open: Destroy removes records and runtime
\* together, so its early return on a missing runtime leaves nothing.
C23_NoRuntimeNoRecords ==
    /\ L = 0 => features = <<>> /\ DOMAIN luaFeatures = {}
    /\ \A i \in 1..Len(features) : features[i].L = L /\ L \in open
    /\ open \subseteq {L} \ {0}

\* the destructor ran on a session whose last Reload had failed: Destroy
\* returned early and there is nothing left
C23_Witness ==
    /\ hostPc = "returned"
    /\ lastOp = "Destructor"
    /\ destroyed
    /\ nloads >= 2
    /\ error # ""
    /\ L = 0
    /\ features = <<>>

=============================================================================
